---- MODULE Spec2Model ----
(***************************************************************************)
(* Model of scriptmodules/supplementary/scummvm/scummvm_helper.py: the     *)
(* commands uniq (unique_target_cmd), copyentry (copy_section_cmd) and     *)
(* createsvm (create_svm_files_cmd) and the functions they call.           *)
(*                                                                         *)
(* A string is a sequence of one-character strings, so that prefixes,      *)
(* suffixes, the split at the first dash, codepoint order and the regular  *)
(* expression of uniq are computed and not assumed.  A configuration file  *)
(* is what configparser hands to the script: an ordered sequence of        *)
(* sections, each a name and an ordered sequence of <<key, value>> pairs.  *)
(* The files of the model have no [DEFAULT] section and no interpolation   *)
(* syntax, and ConfigParser.write followed by ConfigParser.read is taken   *)
(* to give back the sections and pairs that were written (the tokenizer    *)
(* and serializer are library code).  Paths are written in the form        *)
(* pathlib prints them (no "." component, no doubled or trailing slash),   *)
(* and the directories that marker files are written to exist.             *)
(***************************************************************************)
EXTENDS Integers, Sequences, FiniteSets, TLC

VARIABLES
    ini_file,   \* SCUMMVM_INI on disk (the cfg_file of uniq): whether it exists,
                \* and its sections in order
    lr_file,    \* LR_SCUMMVM_INI on disk, in the same form
    svm_files,  \* the *.svm files on disk: a set of [path, content]
    before,     \* content of SCUMMVM_INI when the last run started
    before_lr,  \* content of LR_SCUMMVM_INI when the last run started
    before_svm, \* the *.svm files when the last run started
    last,       \* what the last run did (command, arguments, outcome, exit code)
    runs        \* number of runs of the script so far

vars == <<ini_file, lr_file, svm_files, before, before_lr, before_svm, last, runs>>

----------------------------------------------------------------------------
(* Bounds of the model *)

MaxSections == 3
MaxRuns == 2

----------------------------------------------------------------------------
(* Strings *)

\* codepoints of the characters the model uses (Python compares str by codepoint)
Ord ==
    [c \in {"-", ".", "1", "2", "3", "4", "5", "_", "a", "b", "c", "e", "f", "g",
            "l", "m", "n", "o", "r", "s", "t", "u", "v", "w"} |->
        CASE c = "-" -> 45 [] c = "." -> 46
          [] c = "1" -> 49 [] c = "2" -> 50 [] c = "3" -> 51 [] c = "4" -> 52
          [] c = "5" -> 53 [] c = "_" -> 95
          [] c = "a" -> 97 [] c = "b" -> 98 [] c = "c" -> 99 [] c = "e" -> 101
          [] c = "f" -> 102 [] c = "g" -> 103 [] c = "l" -> 108 [] c = "m" -> 109
          [] c = "n" -> 110 [] c = "o" -> 111 [] c = "r" -> 114 [] c = "s" -> 115
          [] c = "t" -> 116 [] c = "u" -> 117 [] c = "v" -> 118 [] c = "w" -> 119]

\* Python: this <= that on str
RECURSIVE StrLeq(_, _)
StrLeq(a, b) ==
    IF a = <<>> THEN TRUE
    ELSE IF b = <<>> THEN FALSE
    ELSE IF Head(a) = Head(b) THEN StrLeq(Tail(a), Tail(b))
    ELSE Ord[Head(a)] < Ord[Head(b)]

\* Python: c in s, for a one-character c
Contains(s, c) == \E i \in 1..Len(s) : s[i] = c

\* Python: s.endswith(suffix)
EndsWith(s, suffix) ==
    /\ Len(s) >= Len(suffix)
    /\ SubSeq(s, Len(s) - Len(suffix) + 1, Len(s)) = suffix

\* Python: s.split("-")[0], the text before the first dash (all of s if none)
RECURSIVE SplitFirst(_)
SplitFirst(s) ==
    IF s = <<>> \/ Head(s) = "-" THEN <<>>
    ELSE <<Head(s)>> \o SplitFirst(Tail(s))

\* re.search(rf"^{game_id}([-].*)?$", s).  game_id is pasted into the pattern
\* unescaped: each of its characters stands for itself, except "." which
\* stands for any character.  After it the name ends or goes on with a dash.
ReSearch(game_id, s) ==
    /\ Len(s) >= Len(game_id)
    /\ \A i \in 1..Len(game_id) : game_id[i] = "." \/ game_id[i] = s[i]
    /\ Len(s) = Len(game_id) \/ s[Len(game_id) + 1] = "-"

----------------------------------------------------------------------------
(* Names of the source and of the inputs *)

SCUMMVM == <<"s", "c", "u", "m", "m", "v", "m">>
ALL     == <<"_", "a", "l", "l", "_">>
DashEn  == <<"-", "e", "n">>
DashGb  == <<"-", "g", "b">>

Lba     == <<"l", "b", "a">>
LbaFr   == <<"l", "b", "a", "-", "f", "r">>
LbaGb   == <<"l", "b", "a", "-", "g", "b">>
LDotAEn == <<"l", ".", "a", "-", "e", "n">>
LDotA   == <<"l", ".", "a">>
LbaTwo  == <<"l", "b", "a", "t", "w", "o">>
ScummDotM == <<"s", "c", "u", "m", "m", ".", "m">>
ScummvmFr == <<"s", "c", "u", "m", "m", "v", "m", "-", "f", "r">>

\* ROM_HOME = Path("/home/pi/RetroPie/roms/scummvm")
ROM_HOME ==
    <<"/", "h", "o", "m", "e", "/", "p", "i", "/", "R", "e", "t", "r", "o",
      "P", "i", "e", "/", "r", "o", "m", "s", "/", "s", "c", "u", "m", "m",
      "v", "m">>

\* ARGS_INI_ALLOWED
ARGS_INI_ALLOWED == {"libretro", "native"}

\* a configuration file that does not exist, and one holding the sections ini
Missing == [exists |-> FALSE, sections |-> <<>>]
File(ini) == [exists |-> TRUE, sections |-> ini]

----------------------------------------------------------------------------
(* configparser, as far as the script uses it *)

None == <<>>            \* Python None; like "" it is false in "if not x"
NoError == "none"

Range(seq) == {seq[i] : i \in 1..Len(seq)}

\* ini.sections(): the section names in file order
Sections(ini) == [i \in 1..Len(ini) |-> ini[i].name]

\* ini.has_section(name), name in ini
HasSection(ini, name) == \E i \in 1..Len(ini) : ini[i].name = name

\* ini.items(section), for a section that exists
ItemsOf(ini, name) == ini[CHOOSE i \in 1..Len(ini) : ini[i].name = name].items

\* key in ini[s]
HasOption(items, key) == \E i \in 1..Len(items) : items[i][1] = key

\* value of a key in a section's items
ValueOf(items, key) == items[CHOOSE i \in 1..Len(items) : items[i][1] = key][2]

\* targets = [s for s in ini if "path" in ini[s]]
Targets(ini) ==
    SelectSeq(Sections(ini), LAMBDA s : HasOption(ItemsOf(ini, s), "path"))

----------------------------------------------------------------------------
(* The functions of uniq.  A run is threaded through a record st:          *)
(*   new   the output store ini_new, sections in insertion order           *)
(*   exc   NoError, or the exception that ended the run                    *)
(*   code  the argument of sys.exit when exc = "SystemExit"                *)
(*   log   the "Source ini section [x] changed to [y]" lines               *)

\* the for loop of default_variant: first member ending with -gb or -en
RECURSIVE FirstEnglish(_)
FirstEnglish(game_sections) ==
    IF game_sections = <<>> THEN None
    ELSE IF EndsWith(Head(game_sections), DashGb)
              \/ EndsWith(Head(game_sections), DashEn)
         THEN Head(game_sections)
         ELSE FirstEnglish(Tail(game_sections))

\* default_variant without the preference for the English variant
default_variant_first(game_sections) == game_sections[1]

\* default_variant, for a non-empty list (game_sections[0] of an empty list
\* raises IndexError, which the callers below model)
default_variant(game_sections) ==
    IF FirstEnglish(game_sections) = None
    THEN game_sections[1]
    ELSE FirstEnglish(game_sections)

\* _cmp_scummvm_ini_sections without the pinned section
cmp_unpinned(this, that) == IF StrLeq(this, that) THEN -1 ELSE 1

\* a compare function that never puts this before that: the sort keeps the
\* order in which the sections were added
cmp_no_order(this, that) == 1

\* _cmp_scummvm_ini_sections on section names (this[0], that[0])
cmp_scummvm_ini_sections(this, that) ==
    IF this = SCUMMVM THEN -1
    ELSE IF that = SCUMMVM THEN 1
    ELSE IF StrLeq(this, that) THEN -1 ELSE 1

\* the for loop of _cp_section without the rewrite of gameid
CpItems_verbatim(items, game_id) == items

\* the body of the for loop of _cp_section: gameid becomes the new name
CpItems(items, game_id) ==
    [i \in 1..Len(items) |->
        IF items[i][1] = "gameid" THEN <<"gameid", game_id>> ELSE items[i]]

\* _cp_section(ini, ini_new, game_id, source_section)
cp_section(ini, st, game_id, source_section) ==
    IF st.exc # NoError THEN st
    ELSE IF HasSection(st.new, game_id) THEN st
    ELSE LET src == IF source_section = None THEN game_id ELSE source_section
         IN  IF ~HasSection(ini, src)
             THEN [st EXCEPT !.exc = "NoSectionError"]
             ELSE [st EXCEPT !.new = Append(@,
                        [name |-> game_id,
                         items |-> CpItems(ItemsOf(ini, src), game_id)])]

\* [_cp_section(ini, ini_new, sect) for sect in sects]
RECURSIVE CpEach(_, _, _)
CpEach(ini, st, sects) ==
    IF sects = <<>> THEN st
    ELSE CpEach(ini, cp_section(ini, st, Head(sects), None), Tail(sects))

\* game_sections = [s for s in targets if re.search(re_sect, s)]
GameSections(targets, game_id) ==
    SelectSeq(targets, LAMBDA s : ReSearch(game_id, s))

\* plain_game_ids of uniq_all_targets
plain_game_ids(ini) ==
    {SplitFirst(s) : s \in {n \in Range(Sections(ini)) : Contains(n, "-")}}

\* the orders in which "for game_id in plain_game_ids" can visit a set
Orders(S) ==
    {o \in [1..Cardinality(S) -> S] : \A i, j \in 1..Cardinality(S) :
                                          o[i] = o[j] => i = j}

\* the for loop of uniq_all_targets, visiting the stems in the given order
RECURSIVE ReduceStems(_, _, _, _)
ReduceStems(ini, st, targets, order) ==
    IF order = <<>> \/ st.exc # NoError THEN st
    ELSE LET game_id == Head(order)
             game_sections == GameSections(targets, game_id)
         IN  IF game_sections = <<>>
             THEN [st EXCEPT !.exc = "IndexError"]
             ELSE LET source_sect == default_variant(game_sections)
                      copied == cp_section(ini, st, game_id, source_sect)
                  IN  ReduceStems(ini,
                          [copied EXCEPT !.log = Append(@, <<source_sect, game_id>>)],
                          targets, Tail(order))

\* uniq_all_targets without the copy of the sections without dashes
uniq_all_targets_stems_only(ini, st, targets, order) ==
    ReduceStems(ini, st, targets, order)

\* uniq_all_targets
uniq_all_targets(ini, st, targets, order) ==
    CpEach(ini, ReduceStems(ini, st, targets, order),
           SelectSeq(targets, LAMBDA s : ~Contains(s, "-")))

\* uniq_target without the "already unique" exit of lines 318-320
uniq_target_no_unique_exit(ini, st, game_id, targets) ==
    LET game_sections == GameSections(targets, game_id)
    IN  IF Contains(game_id, "-")
        THEN [st EXCEPT !.exc = "SystemExit", !.code = -2]
        ELSE IF Len(game_sections) = 0
        THEN [st EXCEPT !.exc = "SystemExit", !.code = -1]
        ELSE LET source_sect == default_variant(game_sections)
                 copied == cp_section(ini, st, game_id, source_sect)
             IN  CpEach(ini,
                     [copied EXCEPT !.log = Append(@, <<source_sect, game_id>>)],
                     SelectSeq(targets, LAMBDA s : ~ReSearch(game_id, s)))

\* uniq_target without the check of lines 306-309 for a dash in game_id
uniq_target_no_dash_check(ini, st, game_id, targets) ==
    LET game_sections == GameSections(targets, game_id)
    IN  IF Len(game_sections) = 0
        THEN [st EXCEPT !.exc = "SystemExit", !.code = -1]
        ELSE IF Len(game_sections) = 1 /\ HasSection(ini, game_id)
        THEN [st EXCEPT !.exc = "SystemExit", !.code = 0]
        ELSE LET source_sect == default_variant(game_sections)
                 copied == cp_section(ini, st, game_id, source_sect)
             IN  CpEach(ini,
                     [copied EXCEPT !.log = Append(@, <<source_sect, game_id>>)],
                     SelectSeq(targets, LAMBDA s : ~ReSearch(game_id, s)))

\* uniq_target
uniq_target(ini, st, game_id, targets) ==
    LET game_sections == GameSections(targets, game_id)
    IN  IF Contains(game_id, "-")
        THEN [st EXCEPT !.exc = "SystemExit", !.code = -2]
        ELSE IF Len(game_sections) = 0
        THEN [st EXCEPT !.exc = "SystemExit", !.code = -1]
        ELSE IF Len(game_sections) = 1 /\ HasSection(ini, game_id)
        THEN [st EXCEPT !.exc = "SystemExit", !.code = 0]
        ELSE LET source_sect == default_variant(game_sections)
                 copied == cp_section(ini, st, game_id, source_sect)
             IN  CpEach(ini,
                     [copied EXCEPT !.log = Append(@, <<source_sect, game_id>>)],
                     SelectSeq(targets, LAMBDA s : ~ReSearch(game_id, s)))

\* sorted(..., key=cmp_to_key(_cmp_scummvm_ini_sections)): sorted() decides by
\* cmp(x, y) < 0 alone and is stable; on the short lists of the model it is an
\* insertion sort.  x goes before the first y with cmp(x, y) < 0.
RECURSIVE Insert(_, _)
Insert(sorted, x) ==
    IF sorted = <<>> THEN <<x>>
    ELSE IF cmp_scummvm_ini_sections(x.name, Head(sorted).name) < 0
         THEN <<x>> \o sorted
         ELSE <<Head(sorted)>> \o Insert(Tail(sorted), x)

RECURSIVE SortSections(_)
SortSections(sections) ==
    IF sections = <<>> THEN <<>>
    ELSE Insert(SortSections(SubSeq(sections, 1, Len(sections) - 1)),
                sections[Len(sections)])

\* unique_target_cmd up to the open() of line 281: the record st of the run,
\* with st.new sorted when the run gets that far
UniqRun(file, game_id, order) ==
    LET st0 == [new |-> <<>>, exc |-> NoError, code |-> 0, log |-> <<>>]
    IN  IF ~file.exists
        THEN [st0 EXCEPT !.exc = "SystemExit", !.code = -2]      \* read_ini
        ELSE LET ini == file.sections
                 targets == Targets(ini)
                 st1 == IF game_id = ALL
                        THEN uniq_all_targets(ini, st0, targets, order)
                        ELSE uniq_target(ini, st0, game_id, targets)
                 st2 == cp_section(ini, st1, SCUMMVM, None)
             IN  IF st2.exc # NoError THEN st2
                 ELSE [st2 EXCEPT !.new = SortSections(@)]

----------------------------------------------------------------------------
(* The functions of copyentry *)

\* Path(p).is_absolute()
IsAbsolute(p) == p # <<>> /\ Head(p) = "/"

\* Path(root).joinpath(p), printed: an absolute p replaces root
JoinPath(root, p) == IF IsAbsolute(p) THEN p ELSE root \o <<"/">> \o p

\* to_ini[section][key] = value, for a key the section has
SetOption(items, key, value) ==
    [i \in 1..Len(items) |->
        IF items[i][1] = key THEN <<key, value>> ELSE items[i]]

\* to_ini[name] = section with the old keys kept: an update, not a replacement
SetSection_update(ini, name, items) ==
    IF HasSection(ini, name)
    THEN [i \in 1..Len(ini) |->
            IF ini[i].name = name
            THEN [name |-> name,
                  items |-> SelectSeq(ini[i].items,
                                LAMBDA kv : ~HasOption(items, kv[1])) \o items]
            ELSE ini[i]]
    ELSE Append(ini, [name |-> name, items |-> items])

\* to_ini[name] = section: an existing section keeps its place and has its
\* keys cleared and replaced, a new one is added at the end
SetSection(ini, name, items) ==
    IF HasSection(ini, name)
    THEN [i \in 1..Len(ini) |->
            IF ini[i].name = name THEN [name |-> name, items |-> items]
            ELSE ini[i]]
    ELSE Append(ini, [name |-> name, items |-> items])

\* lines 407-410 applied to lr-scummvm and to native alike
NormalizedItems_both(items, to_native) ==
    IF ~IsAbsolute(ValueOf(items, "path"))
    THEN SetOption(items, "path", JoinPath(ROM_HOME, ValueOf(items, "path")))
    ELSE items

\* lines 407-410: lr-scummvm gets an absolute path
NormalizedItems(items, to_native) ==
    IF ~to_native /\ ~IsAbsolute(ValueOf(items, "path"))
    THEN SetOption(items, "path", JoinPath(ROM_HOME, ValueOf(items, "path")))
    ELSE items

\* copy_section_cmd with the check for the destination before the check for
\* the source
CopyRun_conflict_first(native, lr, section_name, scummvm, force) ==
    LET to_native == scummvm = "native"
        from_file == IF to_native THEN lr ELSE native
        to_file == IF to_native THEN native ELSE lr
        st0 == [new |-> <<>>, exc |-> NoError, code |-> 0, msg |-> "none"]
    IN  IF ~from_file.exists \/ ~to_file.exists
        THEN [st0 EXCEPT !.exc = "SystemExit", !.code = -2,
                         !.msg = "does not exist"]
        ELSE IF HasSection(to_file.sections, section_name) /\ ~force
        THEN [st0 EXCEPT !.exc = "SystemExit", !.code = -1,
                         !.msg = "already present"]
        ELSE IF section_name \notin Range(Targets(from_file.sections))
        THEN [st0 EXCEPT !.exc = "SystemExit", !.code = -1,
                         !.msg = "not present"]
        ELSE [st0 EXCEPT !.msg = "written", !.new =
                 SetSection(to_file.sections, section_name,
                     NormalizedItems(ItemsOf(from_file.sections, section_name),
                                     to_native))]

\* copy_section_cmd without the check of lines 398-402 for the destination
CopyRun_no_conflict_check(native, lr, section_name, scummvm, force) ==
    LET to_native == scummvm = "native"
        from_file == IF to_native THEN lr ELSE native
        to_file == IF to_native THEN native ELSE lr
        st0 == [new |-> <<>>, exc |-> NoError, code |-> 0, msg |-> "none"]
    IN  IF ~from_file.exists \/ ~to_file.exists
        THEN [st0 EXCEPT !.exc = "SystemExit", !.code = -2,
                         !.msg = "does not exist"]
        ELSE IF section_name \notin Range(Targets(from_file.sections))
        THEN [st0 EXCEPT !.exc = "SystemExit", !.code = -1,
                         !.msg = "not present"]
        ELSE [st0 EXCEPT !.msg = "written", !.new =
                 SetSection(to_file.sections, section_name,
                     NormalizedItems(ItemsOf(from_file.sections, section_name),
                                     to_native))]

\* copy_section_cmd up to the open() of line 412: the record of the run, with
\* new the sections of to_ini and msg the line that is logged
CopyRun(native, lr, section_name, scummvm, force) ==
    LET to_native == scummvm = "native"
        from_file == IF to_native THEN lr ELSE native
        to_file == IF to_native THEN native ELSE lr
        st0 == [new |-> <<>>, exc |-> NoError, code |-> 0, msg |-> "none"]
    IN  IF ~from_file.exists \/ ~to_file.exists                 \* read_ini
        THEN [st0 EXCEPT !.exc = "SystemExit", !.code = -2,
                         !.msg = "does not exist"]
        ELSE IF section_name \notin Range(Targets(from_file.sections))
        THEN [st0 EXCEPT !.exc = "SystemExit", !.code = -1,
                         !.msg = "not present"]
        ELSE IF HasSection(to_file.sections, section_name) /\ ~force
        THEN [st0 EXCEPT !.exc = "SystemExit", !.code = -1,
                         !.msg = "already present"]
        ELSE [st0 EXCEPT !.msg = "written", !.new =
                 SetSection(to_file.sections, section_name,
                     NormalizedItems(ItemsOf(from_file.sections, section_name),
                                     to_native))]

----------------------------------------------------------------------------
(* The functions of createsvm *)

DotSvm == <<".", "s", "v", "m">>

\* svm_path = ROM_HOME.joinpath(f"{gpath}.svm")
SvmPath(gpath) == JoinPath(ROM_HOME, gpath \o DotSvm)

\* svm_path.exists()
Exists(files, path) == \E f \in files : f.path = path

\* with open(svm_path, "w") as fh: fh.write(f"{game_id}\n")
WriteFile(files, path, content) ==
    {f \in files : f.path # path} \cup {[path |-> path, content |-> content]}

\* the body of the for loop of create_svm_files_cmd without the test of
\* line 226: every target is handled as the first one of its path
SvmStep_every_target(acc, game_id, gpath, overwrite) ==
    IF ~Exists(acc.files, SvmPath(gpath)) \/ overwrite
    THEN [acc EXCEPT !.gamepaths = Append(@, gpath),
                     !.files = WriteFile(@, SvmPath(gpath), game_id),
                     !.created = Append(@, [path |-> SvmPath(gpath),
                                            game_id |-> game_id,
                                            gpath |-> gpath]),
                     !.ctr = @ + 1]
    ELSE [acc EXCEPT !.gamepaths = Append(@, gpath)]

\* the body of the for loop of create_svm_files_cmd for one target; created
\* holds the "... created" lines of the log.  The files that are read
\* (lines 234, 242) exist when they are read.
SvmStep(acc, game_id, gpath, overwrite) ==
    IF gpath \notin Range(acc.gamepaths)
    THEN IF ~Exists(acc.files, SvmPath(gpath)) \/ overwrite
         THEN [acc EXCEPT !.gamepaths = Append(@, gpath),
                          !.files = WriteFile(@, SvmPath(gpath), game_id),
                          !.created = Append(@, [path |-> SvmPath(gpath),
                                                 game_id |-> game_id,
                                                 gpath |-> gpath]),
                          !.ctr = @ + 1]
         ELSE [acc EXCEPT !.gamepaths = Append(@, gpath)]
    ELSE acc

\* the for loop of create_svm_files_cmd over the targets from the n-th on
RECURSIVE SvmLoop(_, _, _, _, _)
SvmLoop(ini, targets, n, acc, overwrite) ==
    IF n > Len(targets) THEN acc
    ELSE SvmLoop(ini, targets, n + 1,
                 SvmStep(acc, targets[n],
                         ValueOf(ItemsOf(ini, targets[n]), "path"), overwrite),
                 overwrite)

\* create_svm_files_cmd on a file that exists
SvmRun(ini, files, overwrite) ==
    SvmLoop(ini, Targets(ini), 1,
            [gamepaths |-> <<>>, ctr |-> 0, files |-> files, created |-> <<>>],
            overwrite)

----------------------------------------------------------------------------
(* Inputs *)

\* the value carried by the keys of the i-th section of an input file
Digit(i) == <<CASE i = 1 -> "1" [] i = 2 -> "2" [] i = 3 -> "3"
                [] i = 4 -> "4" [] OTHER -> "5">>

\* the key/value pairs of the i-th section of an input file, by kind:
\* a config/meta section, a target, a target with a gameid key (these with a
\* relative path), a target with an absolute path, and targets of the games
\* installed in lba, /g/lba and ROM_HOME/lba
KindItems(kind, i) ==
    CASE kind = "meta"   -> << <<"x", Digit(i)>> >>
      [] kind = "plain"  -> << <<"path", Digit(i)>> >>
      [] kind = "withid" -> << <<"gameid", Digit(i)>>, <<"path", Digit(i)>> >>
      [] kind = "abs"    -> << <<"path", <<"/", "g", "/">> \o Digit(i)>> >>
      [] kind = "lbadir" -> << <<"path", <<"l", "b", "a">>>> >>
      [] kind = "abslba" -> << <<"path", <<"/", "g", "/", "l", "b", "a">>>> >>
      [] kind = "romlba" -> << <<"path", ROM_HOME \o <<"/", "l", "b", "a">>>> >>

\* the sections an input file is made of
SectionPool ==
    {<<SCUMMVM, "meta">>, <<SCUMMVM, "withid">>, <<ScummvmFr, "plain">>,
     <<Lba, "meta">>, <<Lba, "plain">>, <<Lba, "withid">>,
     <<LbaFr, "meta">>, <<LbaFr, "plain">>,
     <<LbaGb, "plain">>, <<LbaGb, "withid">>,
     <<LDotAEn, "plain">>,
     <<LbaTwo, "plain">>}

\* input files made of a pool of sections: up to MaxSections sections with
\* distinct names, in any order
StoresOf(pool) ==
    {[i \in 1..Len(c) |-> [name |-> c[i][1], items |-> KindItems(c[i][2], i)]] :
        c \in {c \in UNION {[1..n -> pool] : n \in 0..MaxSections} :
                  \A i, j \in 1..Len(c) : c[i][1] = c[j][1] => i = j}}

Stores == StoresOf(SectionPool)

\* the sections the two files of a copyentry run are made of
CopyPool ==
    {<<SCUMMVM, "meta">>, <<Lba, "meta">>, <<Lba, "plain">>, <<Lba, "abs">>,
     <<LbaFr, "withid">>}

\* the section arguments of copyentry
CopySections == {Lba, LbaFr}

\* the sections the file of a createsvm run is made of
SvmPool ==
    {<<SCUMMVM, "meta">>, <<Lba, "lbadir">>, <<Lba, "abslba">>,
     <<LbaFr, "lbadir">>, <<LbaFr, "romlba">>,
     <<LbaGb, "lbadir">>, <<LbaGb, "abslba">>, <<LbaTwo, "plain">>}

\* the *.svm files that can be on disk before a createsvm run
OldSvmFiles ==
    {[path |-> SvmPath(<<"l", "b", "a">>), content |-> LbaTwo],
     [path |-> SvmPath(<<"/", "g", "/", "l", "b", "a">>), content |-> LbaTwo]}

\* the game_id arguments of uniq
GameIds == {Lba, LbaFr, LDotA, ScummDotM, ALL}

NoRun ==
    [cmd |-> "none", game_id |-> None, outcome |-> "none", code |-> 0,
     wrote |-> FALSE, stems |-> {}, log |-> <<>>]

Init ==
    /\ ini_file \in {File(ini) : ini \in Stores} \cup {Missing}
    /\ lr_file = Missing
    /\ svm_files = {}
    /\ before = ini_file
    /\ before_lr = lr_file
    /\ before_svm = svm_files
    /\ last = NoRun
    /\ runs = 0

----------------------------------------------------------------------------
(* Operations *)

\* "scummvm_helper.py uniq <game_id>": unique_target_cmd.  order is the order
\* in which the set plain_game_ids is iterated (any order is possible).
\* A run that ends in sys.exit or in an uncaught exception never reaches
\* open(cfg_file, "w"); an uncaught exception gives exit status 1.
UniqueTargetCmd(game_id, order) ==
    /\ runs < MaxRuns
    /\ LET st == UniqRun(ini_file, game_id, order)
           stems == IF game_id = ALL /\ ini_file.exists
                    THEN plain_game_ids(ini_file.sections) ELSE {}
       IN  /\ ini_file' = IF st.exc = NoError THEN File(st.new) ELSE ini_file
           /\ last' = [cmd |-> "uniq", game_id |-> game_id,
                       outcome |-> IF st.exc = NoError THEN "return" ELSE st.exc,
                       code |-> IF st.exc = NoError THEN 0
                                ELSE IF st.exc = "SystemExit" THEN st.code
                                ELSE 1,
                       wrote |-> st.exc = NoError,
                       stems |-> stems,
                       log |-> st.log]
    /\ before' = ini_file
    /\ before_lr' = lr_file
    /\ before_svm' = svm_files
    /\ runs' = runs + 1
    /\ UNCHANGED <<lr_file, svm_files>>

Next ==
    \E game_id \in GameIds :
        \E order \in IF game_id = ALL /\ ini_file.exists
                     THEN Orders(plain_game_ids(ini_file.sections)) ELSE {<<>>} :
            UniqueTargetCmd(game_id, order)

Spec == Init /\ [][Next]_vars

\* "scummvm_helper.py copyentry <section> [--force] [--to native|libretro]":
\* copy_section_cmd.  Only to_file is opened for writing.
CopySectionCmd(section_name, scummvm, force) ==
    /\ runs < MaxRuns
    /\ LET st == CopyRun(ini_file, lr_file, section_name, scummvm, force)
           written == st.exc = NoError
       IN  /\ ini_file' = IF written /\ scummvm = "native"
                          THEN File(st.new) ELSE ini_file
           /\ lr_file' = IF written /\ scummvm # "native"
                         THEN File(st.new) ELSE lr_file
           /\ last' = [cmd |-> "copyentry", section |-> section_name,
                       scummvm |-> scummvm, force |-> force,
                       outcome |-> IF written THEN "return" ELSE st.exc,
                       code |-> st.code, msg |-> st.msg, wrote |-> written]
    /\ before' = ini_file
    /\ before_lr' = lr_file
    /\ before_svm' = svm_files
    /\ runs' = runs + 1
    /\ UNCHANGED svm_files

InitCopy ==
    /\ ini_file \in {File(ini) : ini \in StoresOf(CopyPool)} \cup {Missing}
    /\ lr_file \in {File(ini) : ini \in StoresOf(CopyPool)} \cup {Missing}
    /\ svm_files = {}
    /\ before = ini_file
    /\ before_lr = lr_file
    /\ before_svm = svm_files
    /\ last = NoRun
    /\ runs = 0

NextCopy ==
    \E section_name \in CopySections, scummvm \in ARGS_INI_ALLOWED,
       force \in BOOLEAN :
        CopySectionCmd(section_name, scummvm, force)

SpecCopy == InitCopy /\ [][NextCopy]_vars

\* "scummvm_helper.py createsvm [--overwrite]": create_svm_files_cmd.
\* ctr is the number of the "Created <ctr> *.svm files" line.
CreateSvmFilesCmd(overwrite) ==
    /\ runs < MaxRuns
    /\ IF ~ini_file.exists
       THEN /\ svm_files' = svm_files                              \* read_ini
            /\ last' = [cmd |-> "createsvm", overwrite |-> overwrite,
                        outcome |-> "SystemExit", code |-> -2,
                        ctr |-> 0, created |-> <<>>]
       ELSE LET acc == SvmRun(ini_file.sections, svm_files, overwrite)
            IN  /\ svm_files' = acc.files
                /\ last' = [cmd |-> "createsvm", overwrite |-> overwrite,
                            outcome |-> "return", code |-> 0,
                            ctr |-> acc.ctr, created |-> acc.created]
    /\ before' = ini_file
    /\ before_lr' = lr_file
    /\ before_svm' = svm_files
    /\ runs' = runs + 1
    /\ UNCHANGED <<ini_file, lr_file>>

InitSvm ==
    /\ ini_file \in {File(ini) : ini \in StoresOf(SvmPool)} \cup {Missing}
    /\ lr_file = Missing
    /\ svm_files \in SUBSET OldSvmFiles
    /\ before = ini_file
    /\ before_lr = lr_file
    /\ before_svm = svm_files
    /\ last = NoRun
    /\ runs = 0

NextSvm == \E overwrite \in BOOLEAN : CreateSvmFilesCmd(overwrite)

SpecSvm == InitSvm /\ [][NextSvm]_vars

\* A uniq run whose process is killed.  The file is written in place by
\* open(cfg_file, "w") and ini_new.write(fh): a run killed before the open
\* (opened = FALSE) leaves the file as it was; the open truncates the file,
\* and a run killed after it leaves the sections written so far, which are
\* the first `written` sections of ini_new (none, some or all of them).
UniqueTargetCmdKilled(game_id, order, opened, written) ==
    /\ runs < MaxRuns
    /\ LET st == UniqRun(ini_file, game_id, order)
       IN  /\ st.exc = NoError
           /\ written \in 0..Len(st.new)
           /\ ~opened => written = 0
           /\ ini_file' = IF opened THEN File(SubSeq(st.new, 1, written))
                          ELSE ini_file
           /\ last' = [cmd |-> "uniq", game_id |-> game_id,
                       outcome |-> "killed", opened |-> opened,
                       new |-> File(st.new), wrote |-> FALSE]
    /\ before' = ini_file
    /\ before_lr' = lr_file
    /\ before_svm' = svm_files
    /\ runs' = runs + 1
    /\ UNCHANGED <<lr_file, svm_files>>

\* A copyentry run whose process is killed, before or after the
\* open(to_file, "w") of line 412.
CopySectionCmdKilled(section_name, scummvm, force, opened, written) ==
    /\ runs < MaxRuns
    /\ LET st == CopyRun(ini_file, lr_file, section_name, scummvm, force)
           part == IF opened THEN File(SubSeq(st.new, 1, written))
                   ELSE IF scummvm = "native" THEN ini_file ELSE lr_file
       IN  /\ st.exc = NoError
           /\ written \in 0..Len(st.new)
           /\ ~opened => written = 0
           /\ ini_file' = IF scummvm = "native" THEN part ELSE ini_file
           /\ lr_file' = IF scummvm # "native" THEN part ELSE lr_file
           /\ last' = [cmd |-> "copyentry", section |-> section_name,
                       scummvm |-> scummvm, force |-> force,
                       outcome |-> "killed", opened |-> opened,
                       new |-> File(st.new), wrote |-> FALSE]
    /\ before' = ini_file
    /\ before_lr' = lr_file
    /\ before_svm' = svm_files
    /\ runs' = runs + 1
    /\ UNCHANGED svm_files

\* the sections the files of the runs that can be killed are made of
CrashPool == {<<SCUMMVM, "meta">>, <<Lba, "plain">>, <<LbaFr, "plain">>}

InitCrash ==
    /\ ini_file \in {File(ini) : ini \in StoresOf(CrashPool)} \cup {Missing}
    /\ lr_file \in {File(ini) : ini \in StoresOf(CrashPool)} \cup {Missing}
    /\ svm_files = {}
    /\ before = ini_file
    /\ before_lr = lr_file
    /\ before_svm = svm_files
    /\ last = NoRun
    /\ runs = 0

NextCrash ==
    \/ \E game_id \in {Lba, ALL} :
          \E order \in IF game_id = ALL /\ ini_file.exists
                       THEN Orders(plain_game_ids(ini_file.sections))
                       ELSE {<<>>} :
              \/ UniqueTargetCmd(game_id, order)
              \/ \E opened \in BOOLEAN, written \in 0..MaxSections :
                    UniqueTargetCmdKilled(game_id, order, opened, written)
    \/ \E section_name \in CopySections, scummvm \in ARGS_INI_ALLOWED,
          force \in BOOLEAN :
          \/ CopySectionCmd(section_name, scummvm, force)
          \/ \E opened \in BOOLEAN, written \in 0..MaxSections :
                CopySectionCmdKilled(section_name, scummvm, force,
                                     opened, written)

SpecCrash == InitCrash /\ [][NextCrash]_vars

----------------------------------------------------------------------------
(* Properties *)

In  == before.sections      \* the sections the last run read
Out == ini_file.sections    \* the sections on disk after the last run

UniqRan   == last.cmd = "uniq" /\ before.exists
SingleRan == UniqRan /\ last.game_id # ALL
AllRan    == UniqRan /\ last.game_id = ALL

\* name a is before name b in codepoint order
CodepointLess(a, b) ==
    \E k \in 1..Len(b) :
        /\ k <= Len(a) + 1
        /\ \A i \in 1..(k - 1) : a[i] = b[i]
        /\ k = Len(a) + 1 \/ Ord[a[k]] < Ord[b[k]]

IsEnglish(s) == EndsWith(s, DashEn) \/ EndsWith(s, DashGb)

\* the pairs of a section copied under a new name: gameid holds the new name
SamePairsButGameid(out, in, name) ==
    /\ Len(out) = Len(in)
    /\ \A i \in 1..Len(in) :
          /\ out[i][1] = in[i][1]
          /\ out[i][2] = IF in[i][1] = "gameid" THEN name ELSE in[i][2]

\* C1: default_variant returns the first member of the group, in list order,
\* whose name ends with -en or -gb if there is one, and the first member of
\* the group otherwise: every "changed to" line of a uniq run names that
\* member of the group of its stem.
C1_DefaultVariant ==
    UniqRan =>
        \A n \in 1..Len(last.log) :
            LET group == GameSections(Targets(In), last.log[n][2])
                english == {i \in 1..Len(group) : IsEnglish(group[i])}
            IN  /\ group # <<>>
                /\ english = {} => last.log[n][1] = group[1]
                /\ english # {} =>
                      \E i \in english : /\ last.log[n][1] = group[i]
                                         /\ \A j \in english : i <= j

\* a group whose first member is not English while a later one is
C1_Witness ==
    /\ UniqRan
    /\ \E n \in 1..Len(last.log) :
          LET group == GameSections(Targets(In), last.log[n][2])
          IN  /\ Len(group) >= 2
              /\ ~IsEnglish(group[1])
              /\ IsEnglish(last.log[n][1])

\* C2: after uniq has merged a group into the section named by its stem, that
\* section holds the keys and values of the chosen representative, with the
\* key gameid holding the stem whatever it held in the representative.
C2_MergedSection ==
    (UniqRan /\ last.wrote) =>
        \A n \in 1..Len(last.log) :
            LET source_sect == last.log[n][1]
                stem == last.log[n][2]
            IN  /\ Cardinality({i \in 1..Len(Out) : Out[i].name = stem}) = 1
                /\ SamePairsButGameid(ItemsOf(Out, stem),
                                      ItemsOf(In, source_sect), stem)
                /\ HasOption(ItemsOf(In, source_sect), "gameid") =>
                      ValueOf(ItemsOf(Out, stem), "gameid") = stem

\* a merge from a suffixed representative whose gameid was not the stem
C2_Witness ==
    /\ UniqRan /\ last.wrote
    /\ \E n \in 1..Len(last.log) :
          /\ last.log[n][1] # last.log[n][2]
          /\ HasOption(ItemsOf(In, last.log[n][1]), "gameid")
          /\ ValueOf(ItemsOf(In, last.log[n][1]), "gameid") # last.log[n][2]
          /\ ValueOf(ItemsOf(Out, last.log[n][2]), "gameid") = last.log[n][2]

\* C3: single-stem uniq is idempotent: a second run with the same stem leaves
\* the file as the first run left it, and when the first run wrote, the
\* second takes the "already unique" exit (sys.exit(0), nothing written).
C3_Idempotent ==
    [][(/\ last.cmd = "uniq" /\ last.game_id # ALL
        /\ last'.cmd = "uniq" /\ last'.game_id = last.game_id
        /\ runs' = runs + 1)
       => /\ ini_file' = ini_file
          /\ last.wrote => /\ last'.outcome = "SystemExit"
                           /\ last'.code = 0
                           /\ ~last'.wrote]_vars

\* C4: in all-stems mode every target name with a dash is matched by the
\* group of exactly one computed stem, and for every computed group the
\* written output has exactly one section named by the stem and no section
\* named by a suffixed member of the group.
C4_GroupCoverage ==
    AllRan =>
        /\ \A t \in Range(Targets(In)) :
              Contains(t, "-") =>
                  Cardinality({g \in last.stems : ReSearch(g, t)}) = 1
        /\ last.wrote =>
              \A g \in last.stems :
                  /\ Cardinality({i \in 1..Len(Out) : Out[i].name = g}) = 1
                  /\ \A t \in Range(GameSections(Targets(In), g)) :
                        Contains(t, "-") => ~HasSection(Out, t)

\* C5: a file written by uniq has the section scummvm first and the other
\* sections after it, in strictly ascending codepoint order of their names.
C5_SortedOutput ==
    (UniqRan /\ last.wrote) =>
        \A i, j \in 1..Len(Out) :
            i < j => /\ Out[j].name # SCUMMVM
                     /\ Out[i].name = SCUMMVM
                           \/ CodepointLess(Out[i].name, Out[j].name)

\* a written file of three sections or more whose input did not start with
\* scummvm and was not in ascending order
C5_Witness ==
    /\ UniqRan /\ last.wrote
    /\ Len(Out) >= 3
    /\ In[1].name # SCUMMVM
    /\ \E i \in 1..(Len(In) - 1) : CodepointLess(In[i + 1].name, In[i].name)
    /\ Out[1].name = SCUMMVM
    /\ CodepointLess(Out[2].name, Out[1].name)

\* C6: single-stem uniq with a stem (no dash) whose match set is the one
\* target named like the stem exits with status 0, writes nothing and leaves
\* the file as it was.
C6_AlreadyUnique ==
    (/\ SingleRan
     /\ ~Contains(last.game_id, "-")
     /\ GameSections(Targets(In), last.game_id) = <<last.game_id>>)
    => /\ last.outcome = "SystemExit"
       /\ last.code = 0
       /\ ~last.wrote
       /\ ini_file = before

\* a run on a file that has the target lba, no variant of it, and a scummvm
\* section (so that only the exit keeps the run from writing)
C6_Witness ==
    /\ SingleRan
    /\ last.game_id = Lba
    /\ GameSections(Targets(In), Lba) = <<Lba>>
    /\ HasSection(In, SCUMMVM)
    /\ Len(In) >= 3
    /\ last.outcome = "SystemExit" /\ last.code = 0

\* C7: the sections without a path key are passed through a uniq run
\* unchanged: each of them is in the written output with the pairs it had.
C7_MetaPassThrough ==
    (UniqRan /\ last.wrote) =>
        \A i \in 1..Len(In) :
            ~HasOption(In[i].items, "path") =>
                /\ HasSection(Out, In[i].name)
                /\ ItemsOf(Out, In[i].name) = In[i].items

\* C8: in all-stems mode the stems that are reduced are exactly the stems of
\* the target names with a dash; a section without a path key creates no
\* group, so no group is empty and the run does not abort on one.
C8_StemsOfTargets ==
    AllRan =>
        /\ last.stems =
              {SplitFirst(t) : t \in {n \in Range(Targets(In)) : Contains(n, "-")}}
        /\ \A g \in last.stems : GameSections(Targets(In), g) # <<>>
        /\ last.outcome # "IndexError"

\* C9 as claimed: in all-stems mode every target without a dash is in the
\* written output under its name with exactly the pairs it had in the input,
\* also when variants of it exist.
C9_Original ==
    (AllRan /\ last.wrote) =>
        \A t \in Range(Targets(In)) :
            ~Contains(t, "-") =>
                /\ HasSection(Out, t)
                /\ ItemsOf(Out, t) = ItemsOf(In, t)

\* C9, amended: in all-stems mode every target without a dash is in the
\* written output under its name.  When no section of the file is named by
\* that name followed by "-suffix", it has the pairs it had in the input,
\* except that an existing gameid key holds the section's name; when there
\* are such sections, it holds in that way the pairs of the representative
\* chosen for its group, which can be another member.
C9_DashlessTargets ==
    (AllRan /\ last.wrote) =>
        \A t \in Range(Targets(In)) :
            ~Contains(t, "-") =>
                /\ Cardinality({i \in 1..Len(Out) : Out[i].name = t}) = 1
                /\ (\A n \in Range(Sections(In)) :
                        ~(Contains(n, "-") /\ SplitFirst(n) = t))
                   => SamePairsButGameid(ItemsOf(Out, t), ItemsOf(In, t), t)
                /\ (\E n \in Range(Sections(In)) :
                        Contains(n, "-") /\ SplitFirst(n) = t)
                   => \E n \in 1..Len(last.log) :
                         /\ last.log[n][2] = t
                         /\ SamePairsButGameid(ItemsOf(Out, t),
                                ItemsOf(In, last.log[n][1]), t)

\* a written all-stems run with a dashless target that has no variant and
\* keeps its pairs, and one whose section now holds the pairs of a variant
C9_Witness ==
    /\ AllRan /\ last.wrote
    /\ \E t \in Range(Targets(In)) :
          /\ ~Contains(t, "-")
          /\ t \notin last.stems
          /\ ItemsOf(Out, t) = ItemsOf(In, t)
    /\ \E t \in Range(Targets(In)) :
          /\ ~Contains(t, "-")
          /\ t \in last.stems
          /\ ItemsOf(Out, t) # ItemsOf(In, t)

\* C10: the section scummvm is never a target nor a merge destination and is
\* copied through unmodified: a written output has the section scummvm with
\* exactly the pairs of the input's section scummvm.
C10_PinnedUnmodified ==
    (UniqRan /\ last.wrote) =>
        /\ HasSection(In, SCUMMVM)
        /\ HasSection(Out, SCUMMVM)
        /\ ItemsOf(Out, SCUMMVM) = ItemsOf(In, SCUMMVM)
        /\ \A n \in 1..Len(last.log) : last.log[n][2] # SCUMMVM

\* C11: a uniq run that ends with an error leaves the configuration file as
\* it was and never opens it for writing; a missing file gives exit status
\* -2, a single-stem game id with a dash gives -2, an empty match set gives -1.
C11_ErrorsLeaveFile ==
    last.cmd = "uniq" =>
        /\ last.outcome # "return" => (ini_file = before /\ ~last.wrote)
        /\ ~before.exists => (last.outcome = "SystemExit" /\ last.code = -2)
        /\ (before.exists /\ last.game_id # ALL /\ Contains(last.game_id, "-"))
           => (last.outcome = "SystemExit" /\ last.code = -2)
        /\ (/\ before.exists /\ last.game_id # ALL
            /\ ~Contains(last.game_id, "-")
            /\ GameSections(Targets(In), last.game_id) = <<>>)
           => (last.outcome = "SystemExit" /\ last.code = -1)

\* a game id with a dash given for a file that has that target, a variant of
\* it and a scummvm section: only the check keeps the run from merging
C11_Witness ==
    /\ SingleRan
    /\ last.game_id = LbaFr
    /\ Len(GameSections(Targets(In), Lba)) >= 2
    /\ HasSection(In, LbaFr) /\ HasSection(In, SCUMMVM)
    /\ last.outcome = "SystemExit" /\ last.code = -2
    /\ ini_file = before

\* the files of the last copyentry run: its source and its destination,
\* before and after the run
CopyRan == last.cmd = "copyentry"
ToNative == last.scummvm = "native"
FromBefore == IF ToNative THEN before_lr ELSE before
FromAfter  == IF ToNative THEN lr_file ELSE ini_file
ToBefore   == IF ToNative THEN before ELSE before_lr
ToAfter    == IF ToNative THEN ini_file ELSE lr_file

\* the last copyentry run had both files and was asked for a target of its
\* source
CopyOfTarget ==
    /\ CopyRan
    /\ FromBefore.exists /\ ToBefore.exists
    /\ \E i \in 1..Len(FromBefore.sections) :
          /\ FromBefore.sections[i].name = last.section
          /\ HasOption(FromBefore.sections[i].items, "path")

\* C13: copyentry normalizes the path only towards libretro: when the
\* destination is libretro and the path of the copied section is not
\* absolute, the stored path is ROM_HOME, a slash and the relative value;
\* when the path is absolute or the destination is native, the stored path is
\* the path of the source.
C13_PathNormalization ==
    (CopyRan /\ last.wrote) =>
        LET source_path == ValueOf(ItemsOf(FromBefore.sections, last.section), "path")
            stored_path == ValueOf(ItemsOf(ToAfter.sections, last.section), "path")
        IN  IF last.scummvm = "libretro" /\ Head(source_path) # "/"
            THEN /\ Len(stored_path) = Len(ROM_HOME) + 1 + Len(source_path)
                 /\ SubSeq(stored_path, 1, Len(ROM_HOME)) = ROM_HOME
                 /\ stored_path[Len(ROM_HOME) + 1] = "/"
                 /\ EndsWith(stored_path, source_path)
            ELSE stored_path = source_path

\* a copy to libretro of a section with a relative path, stored under ROM_HOME
C13_Witness ==
    /\ CopyRan /\ last.wrote
    /\ last.scummvm = "libretro"
    /\ Head(ValueOf(ItemsOf(FromBefore.sections, last.section), "path")) # "/"
    /\ ValueOf(ItemsOf(ToAfter.sections, last.section), "path")
          # ValueOf(ItemsOf(FromBefore.sections, last.section), "path")
    /\ Head(ValueOf(ItemsOf(ToAfter.sections, last.section), "path")) = "/"

\* C14: copyentry of a target of the source that the destination already has
\* reports the conflict with exit status -1 and leaves the destination file
\* untouched when --force is not given; with --force the same call succeeds
\* and replaces the section.
C14_ConflictGuard ==
    (CopyOfTarget /\ HasSection(ToBefore.sections, last.section)) =>
        IF last.force
        THEN /\ last.outcome = "return" /\ last.code = 0 /\ last.wrote
             /\ ItemsOf(ToAfter.sections, last.section)
                   = NormalizedItems(ItemsOf(FromBefore.sections, last.section),
                                     ToNative)
        ELSE /\ last.outcome = "SystemExit" /\ last.code = -1
             /\ last.msg = "already present"
             /\ ~last.wrote
             /\ ToAfter = ToBefore

\* a conflict: the destination has the section with other pairs, no --force
C14_Witness ==
    /\ CopyOfTarget /\ HasSection(ToBefore.sections, last.section)
    /\ ~last.force
    /\ ItemsOf(ToBefore.sections, last.section)
          # ItemsOf(FromBefore.sections, last.section)
    /\ last.code = -1 /\ last.msg = "already present"
    /\ ToAfter = ToBefore

\* C15: with both files present, copyentry of a name that is not a target of
\* the source (also a section of the source without a path key) fails as
\* not found with exit status -1 and writes nothing; the check comes before
\* the one for a conflict, so this holds whatever the destination has.
C15_NotFound ==
    (/\ CopyRan /\ FromBefore.exists /\ ToBefore.exists
     /\ last.section \notin Range(Targets(FromBefore.sections)))
    => /\ last.outcome = "SystemExit" /\ last.code = -1
       /\ last.msg = "not present"
       /\ ~last.wrote
       /\ ini_file = before /\ lr_file = before_lr

\* the name is a section of the source without a path key, the destination
\* has it too and --force is not given: not found, not a conflict
C15_Witness ==
    /\ CopyRan /\ FromBefore.exists /\ ToBefore.exists
    /\ HasSection(FromBefore.sections, last.section)
    /\ ~HasOption(ItemsOf(FromBefore.sections, last.section), "path")
    /\ HasSection(ToBefore.sections, last.section)
    /\ ~last.force
    /\ last.msg = "not present" /\ last.code = -1

\* C16: after a successful copyentry the destination section has exactly the
\* keys and values of the source section, in order, the path apart; no key
\* that only the old destination section had is left; every other section
\* of the destination is as it was, and the source file is not written.
C16_FullCopy ==
    (CopyRan /\ last.wrote) =>
        LET source == ItemsOf(FromBefore.sections, last.section)
            stored == ItemsOf(ToAfter.sections, last.section)
        IN  /\ Len(stored) = Len(source)
            /\ \A i \in 1..Len(source) :
                  /\ stored[i][1] = source[i][1]
                  /\ source[i][1] # "path" => stored[i][2] = source[i][2]
            /\ \A kv \in Range(stored) : HasOption(source, kv[1])
            /\ Cardinality({i \in 1..Len(ToAfter.sections) :
                               ToAfter.sections[i].name = last.section}) = 1
            /\ \A i \in 1..Len(ToBefore.sections) :
                  ToBefore.sections[i].name # last.section =>
                      ToAfter.sections[i] = ToBefore.sections[i]
            /\ \A i \in 1..Len(ToAfter.sections) :
                  ToAfter.sections[i].name # last.section =>
                      (i <= Len(ToBefore.sections)
                          /\ ToAfter.sections[i] = ToBefore.sections[i])
            /\ FromAfter = FromBefore

\* a forced copy over a section that had a key the source lacks, in a
\* destination that has another section
C16_Witness ==
    /\ CopyRan /\ last.wrote /\ last.force
    /\ HasSection(ToBefore.sections, last.section)
    /\ \E kv \in Range(ItemsOf(ToBefore.sections, last.section)) :
          ~HasOption(ItemsOf(FromBefore.sections, last.section), kv[1])
    /\ Len(ToAfter.sections) >= 2

\* the last createsvm run, its targets in file order and their paths
SvmRan == last.cmd = "createsvm" /\ before.exists
SvmTargets == Targets(In)
GamePath(n) == ValueOf(ItemsOf(In, SvmTargets[n]), "path")
GamePaths == {GamePath(n) : n \in 1..Len(SvmTargets)}
FirstWith(gpath) ==
    CHOOSE n \in 1..Len(SvmTargets) :
        /\ GamePath(n) = gpath
        /\ \A m \in 1..(n - 1) : GamePath(m) # gpath
CreatedFor(gpath) == {n \in 1..Len(last.created) : last.created[n].gpath = gpath}

\* the marker file of a path was on disk when the run came to the first
\* target of that path: it was there before the run, or the run had written
\* it for a path met earlier
ExistedThen(gpath) ==
    \/ \E f \in before_svm : f.path = SvmPath(gpath)
    \/ \E q \in GamePaths :
          /\ FirstWith(q) < FirstWith(gpath)
          /\ \E n \in CreatedFor(q) : last.created[n].path = SvmPath(gpath)

\* C17: createsvm writes at most once per distinct path value, for the first
\* target section (in file order) with that path and with that section's
\* name, and it does so iff the marker file is not there yet or --overwrite
\* is given; a marker that was there is left untouched without --overwrite;
\* the reported count is the number of writes of the run.
C17_MarkerDedup ==
    SvmRan =>
        /\ \A gpath \in GamePaths :
              /\ Cardinality(CreatedFor(gpath)) <= 1
              /\ \A n \in CreatedFor(gpath) :
                    last.created[n].game_id = SvmTargets[FirstWith(gpath)]
              /\ CreatedFor(gpath) # {} <=>
                    (last.overwrite \/ ~ExistedThen(gpath))
        /\ \A n \in 1..Len(last.created) : last.created[n].gpath \in GamePaths
        /\ last.ctr = Len(last.created)
        /\ ~last.overwrite => before_svm \subseteq svm_files
        /\ \A f \in before_svm :
              (\A n \in 1..Len(last.created) : last.created[n].path # f.path)
              => f \in svm_files
        /\ \A n \in 1..Len(last.created) :
              (\A m \in (n + 1)..Len(last.created) :
                    last.created[m].path # last.created[n].path)
              => [path |-> last.created[n].path,
                  content |-> last.created[n].game_id] \in svm_files
        /\ Cardinality({f.path : f \in svm_files}) = Cardinality(svm_files)

\* a run without --overwrite over two targets that share a path, which gets
\* one marker with the name of the first, and a target whose marker was there
C17_Witness ==
    /\ SvmRan /\ ~last.overwrite
    /\ Len(SvmTargets) = 3
    /\ GamePath(1) = GamePath(2) /\ GamePath(3) # GamePath(1)
    /\ last.ctr = 1
    /\ last.created[1].game_id = SvmTargets[1]
    /\ \E f \in before_svm : f.path = SvmPath(GamePath(3)) /\ f \in svm_files

\* the last component of a path
RECURSIVE Basename(_)
Basename(path) ==
    IF Contains(path, "/") THEN Basename(Tail(path)) ELSE path

\* C18: every marker file written by createsvm is directly in ROM_HOME and is
\* named by the last component of the section's path followed by ".svm",
\* for relative and for absolute paths.
C18_MarkerInRomHome ==
    SvmRan =>
        \A n \in 1..Len(last.created) :
            /\ last.created[n].path
                  = ROM_HOME \o <<"/">> \o Basename(last.created[n].gpath) \o DotSvm
            /\ [path |-> ROM_HOME \o <<"/">> \o Basename(last.created[n].gpath)
                            \o DotSvm,
                content |-> last.created[n].game_id] \in svm_files

\* C19: a uniq run on a file without a scummvm section, which gets as far as
\* the copy of that section (no exit, every group of the run has a member),
\* completes and writes its targets: the copy of the missing section returns
\* and adds no section.
C19_MissingSourceSkipped ==
    (/\ UniqRan
     /\ ~HasSection(In, SCUMMVM)
     /\ last.outcome # "SystemExit"
     /\ \A stem \in last.stems : GameSections(Targets(In), stem) # <<>>)
    => /\ last.outcome = "return"
       /\ last.code = 0
       /\ last.wrote
       /\ \A n \in 1..Len(last.log) : HasSection(Out, last.log[n][2])
       /\ HasSection(Out, SCUMMVM) =>
             \E n \in 1..Len(last.log) : last.log[n][2] = SCUMMVM

\* C20: single-stem uniq with a stem (no dash) on a file with a scummvm
\* section exits with status 0 only when its match set is the one target
\* named like the stem; with any other match set that is not empty it writes
\* the file, and the output has a section named by the stem that holds the
\* pairs of the representative of the match set.
C20_NoOpOnlyForStem ==
    (/\ SingleRan
     /\ ~Contains(last.game_id, "-")
     /\ HasSection(In, SCUMMVM))
    => LET game_sections == GameSections(Targets(In), last.game_id)
       IN  /\ (last.outcome = "SystemExit" /\ last.code = 0)
                  => game_sections = <<last.game_id>>
           /\ (game_sections # <<>> /\ game_sections # <<last.game_id>>)
                  => /\ last.wrote
                     /\ HasSection(Out, last.game_id)
                     /\ \E src \in Range(game_sections) :
                           SamePairsButGameid(ItemsOf(Out, last.game_id),
                                              ItemsOf(In, src), last.game_id)

\* C12: a uniq or copyentry run that is killed at any point leaves each
\* configuration file either with its complete content from before the run
\* or with the complete content the run was writing, never empty or written
\* in part.
C12_CrashSafe ==
    last.outcome = "killed" =>
        /\ last.cmd = "uniq" =>
              /\ ini_file = before \/ ini_file = last.new
              /\ lr_file = before_lr
        /\ (last.cmd = "copyentry" /\ last.scummvm = "native") =>
              /\ ini_file = before \/ ini_file = last.new
              /\ lr_file = before_lr
        /\ (last.cmd = "copyentry" /\ last.scummvm # "native") =>
              /\ lr_file = before_lr \/ lr_file = last.new
              /\ ini_file = before

\* name is the stem or the stem followed by a dash and a suffix
StemOrVariant(name, stem) ==
    \/ name = stem
    \/ /\ Len(name) > Len(stem)
       /\ SubSeq(name, 1, Len(stem) + 1) = stem \o <<"-">>

\* C21: after a single-stem uniq that writes, the targets of the output are
\* the stem section and every target of the input whose name is neither the
\* stem nor the stem followed by "-": each of these keeps its name and its
\* pairs, an existing gameid key being set to the section's name.
C21_RetainedTargets ==
    (SingleRan /\ last.wrote) =>
        LET kept == {s \in Range(Targets(In)) : ~StemOrVariant(s, last.game_id)}
        IN  /\ Range(Targets(Out)) = kept \cup {last.game_id}
            /\ \A s \in kept :
                  /\ HasSection(Out, s)
                  /\ SamePairsButGameid(ItemsOf(Out, s), ItemsOf(In, s), s)

\* C22: the result of all-stems uniq does not depend on the order in which
\* the set of stems is visited: for the file the last run read, every order
\* of its stems ends like the run did, with the same written file, or with
\* the same exception and exit status and the file left as it was.
C22_OrderIndependent ==
    AllRan =>
        \A order \in Orders(last.stems) :
            LET st == UniqRun(before, ALL, order)
            IN  /\ last.wrote <=> st.exc = NoError
                /\ st.exc = NoError => ini_file = File(st.new)
                /\ st.exc # NoError =>
                      /\ ini_file = before
                      /\ last.outcome = st.exc
                      /\ last.code = IF st.exc = "SystemExit" THEN st.code ELSE 1

\* a writing run with three stems, which can be visited in six orders, on a
\* file whose sections are not in the order of the output
C22_Witness ==
    /\ AllRan /\ last.wrote
    /\ Cardinality(last.stems) = 3
    /\ Cardinality(Orders(last.stems)) = 6
    /\ \E i, j \in 1..Len(In) :
          i < j /\ CodepointLess(In[j].name, In[i].name)
    /\ Len(Out) = 3

\* a run on a file with two stems of which one has no target: the group of
\* that stem is empty and every order ends in the same exception
C22_FailureWitness ==
    /\ AllRan /\ ~last.wrote
    /\ Cardinality(last.stems) = 2
    /\ last.outcome = "IndexError"
    /\ \E stem \in last.stems : GameSections(Targets(In), stem) # <<>>

====
